---- MODULE Spec2Model ----
(***************************************************************************)
(* Model of the FFI byte codec of vmm-serde (src/src/ffi.rs):              *)
(* serialize_ffi, deserialize_ffi, deserialize_ffi_fam and the size_of     *)
(* oracle generated by serde_ffi_fam_impl!.                                *)
(*                                                                         *)
(* Memory is modelled as sequences of bytes.  An instance `something` is   *)
(* the allocation that backs a &T: its first mem::size_of::<T>() bytes are *)
(* the struct, whatever follows inside the same allocation is the trailing *)
(* array.  usize arithmetic wraps modulo 2^WordBits (build without         *)
(* overflow checks).  A raw copy whose length exceeds the extent of its    *)
(* source or destination is undefined behaviour: the model lets it either  *)
(* abort the process or transfer whatever bytes lie next to the            *)
(* allocation.                                                             *)
(***************************************************************************)
EXTENDS Integers, Sequences, FiniteSets, TLC

\* ---------------------------------------------------------------- bounds
WordBits == 4      \* width of usize in the model
MaxByte == 2       \* a byte holds 0..MaxByte
MaxLen == 3        \* longest allocation / ByteBuf
MaxStatic == 2     \* largest mem::size_of::<T>()
MaxEntry == 8      \* largest mem::size_of::<$entry>()

RECURSIVE Pow2(_)
Pow2(n) == IF n = 0 THEN 1 ELSE 2 * Pow2(n - 1)

UsizeMod == Pow2(WordBits)

\* isize::MAX, the largest allocation a Vec accepts ("capacity overflow")
IsizeMax == Pow2(WordBits - 1) - 1

Byte == 0..MaxByte

BytesOfLen(n) == [1..n -> Byte]

Buffers == UNION {BytesOfLen(n) : n \in 0..MaxLen}

Zeroes(n) == [i \in 1..n |-> 0]

\* The types the codec is instantiated with.  fam: T carries a count field
\* (its first byte) and serde_ffi_fam_impl! was applied with an entry type of
\* esize bytes; otherwise T is a plain fixed-size struct.
Types ==
    [fam : {TRUE}, ssize : 1..MaxStatic, esize : 0..MaxEntry]
      \cup [fam : {FALSE}, ssize : 0..MaxStatic, esize : {0}]

VARIABLES T, something, serialized, origin, ret

vars == <<T, something, serialized, origin, ret>>

\* ------------------------------------------------------------ size oracle

\* mutation: the count field is ignored
size_of_fam_nocount(self) == T.ssize

\* (self.$field as usize) * size_of::<$entry>() + size_of::<Self>()
size_of_fam(self) ==
    ((((self[1] % UsizeMod) * T.esize) % UsizeMod) + T.ssize) % UsizeMod

\* size_of of a type without flexible array member: its static size
size_of_fixed(self) == T.ssize

size_of(self) == IF T.fam THEN size_of_fam(self) ELSE size_of_fixed(self)

\* ------------------------------------------------------------ raw memory

Copy(n, s, d) == [len |-> n, src |-> s, dst |-> d]

\* ptr::copy(src, dst, count): the possible outcomes.  In bounds there is one:
\* the first count bytes of dst are overwritten.  Out of bounds the process
\* may abort, or the copy goes through with the bytes v that happen to lie
\* past the end of src (bytes written past the end of dst land outside dst).
ptr_copy(src, dst, count) ==
    IF count <= Len(src) /\ count <= Len(dst)
    THEN {[tag |-> "Ok",
           mem |-> [i \in 1..Len(dst) |-> IF i <= count THEN src[i] ELSE dst[i]]]}
    ELSE {[tag |-> "Abort", mem |-> dst]} \cup
         {[tag |-> "Ok",
           mem |-> [i \in 1..Len(dst) |->
                      IF i <= count
                      THEN (IF i <= Len(src) THEN src[i] ELSE v)
                      ELSE dst[i]]] : v \in Byte}

\* ptr::read_unaligned(data.as_ptr() as *const T)
read_unaligned(data) == SubSeq(data, 1, T.ssize)

\* Default::default() of T: every field zero
Default == Zeroes(T.ssize)

\* ---------------------------------------------------------------- results

Ok(v, c) == [tag |-> "Ok", val |-> v, err |-> <<0, 0>>, copies |-> c]

Err(e, a, c) == [tag |-> "Err", val |-> <<>>, err |-> <<e, a>>, copies |-> c]

Abort(c) == [tag |-> "Abort", val |-> <<>>, err |-> <<0, 0>>, copies |-> c]

NoRet == [op |-> "none"] @@ Ok(<<>>, <<>>)

\* ------------------------------------------------------------ serialize_ffi

\* mutation: the buffer is allocated but the copy is left out
serialize_ffi_nocopy(x) ==
    {Ok(<<Zeroes(size_of(x))>>, <<>>)}

\* vec![0; n] panics when n exceeds isize::MAX
serialize_ffi(x) ==
    LET n == size_of(x)
        serialized_self == Zeroes(n)
    IN  IF n > IsizeMax
        THEN {Abort(<<>>)}
        ELSE {IF c.tag = "Ok"
              THEN Ok(<<c.mem>>, <<Copy(n, Len(x), n)>>)
              ELSE Abort(<<Copy(n, Len(x), n)>>) :
                  c \in ptr_copy(x, serialized_self, n)}

\* ---------------------------------------------------------- deserialize_ffi

\* mutation: only buffers that are too short are rejected
deserialize_ffi_lt(data) ==
    IF Len(data) < T.ssize
    THEN {Err(T.ssize, Len(data), <<>>)}
    ELSE {Ok(<<read_unaligned(data)>>, <<Copy(T.ssize, Len(data), T.ssize)>>)}

deserialize_ffi(data) ==
    IF Len(data) # T.ssize
    THEN {Err(T.ssize, Len(data), <<>>)}
    ELSE {Ok(<<read_unaligned(data)>>, <<Copy(T.ssize, Len(data), T.ssize)>>)}

\* ------------------------------------------------------ deserialize_ffi_fam

\* the Vec<T> of n slots seen as a list of T-sized byte images
Slots(mem, n) == [k \in 1..n |-> SubSeq(mem, (k - 1) * T.ssize + 1, k * T.ssize)]

\* mutation: the slot count is rounded down
entries_floor(size) == size \div T.ssize

\* (obj.size_of() + mem::size_of::<T>() - 1) / mem::size_of::<T>()
entries(size) == ((size + T.ssize - 1) % UsizeMod) \div T.ssize

\* mutation: a buffer longer than the header is accepted
fam_fixed_lax(data, obj, rd) ==
    IF Len(data) < T.ssize
    THEN {Err(T.ssize, Len(data), <<rd>>)}
    ELSE {Ok(<<obj>>, <<rd>>)}

\* the branch taken when obj.size_of() == mem::size_of::<T>()
fam_fixed(data, obj, rd) ==
    IF Len(data) # T.ssize
    THEN {Err(T.ssize, Len(data), <<rd>>)}
    ELSE {Ok(<<obj>>, <<rd>>)}

\* mutation: only the header is copied into the slots
fam_overlay_header(data, obj, rd) ==
    LET n == entries(size_of(obj))
        buf == Zeroes(n * T.ssize)
        cp == Copy(T.ssize, Len(data), Len(buf))
    IN  IF n = 0 \/ n * T.ssize > IsizeMax
        THEN {Abort(<<rd>>)}
        ELSE {IF c.tag = "Ok"
              THEN Ok(Slots(c.mem, n), <<rd, cp>>)
              ELSE Abort(<<rd, cp>>) : c \in ptr_copy(data, buf, T.ssize)}

\* the branch taken when obj.size_of() == data.len(): allocate the slots,
\* fill them with Default::default() and overlay the whole buffer.
\* Vec::with_capacity panics above isize::MAX bytes, &mut buf[0] on an
\* empty Vec.
fam_overlay(data, obj, rd) ==
    LET n == entries(size_of(obj))
        buf == [i \in 1..(n * T.ssize) |-> Default[((i - 1) % T.ssize) + 1]]
        cp == Copy(size_of(obj), Len(data), Len(buf))
    IN  IF n = 0 \/ n * T.ssize > IsizeMax
        THEN {Abort(<<rd>>)}
        ELSE {IF c.tag = "Ok"
              THEN Ok(Slots(c.mem, n), <<rd, cp>>)
              ELSE Abort(<<rd, cp>>) : c \in ptr_copy(data, buf, size_of(obj))}

\* mutation: the declared size is only checked against a shorter buffer
deserialize_ffi_fam_gt(data) ==
    IF Len(data) < T.ssize
    THEN {Err(T.ssize, Len(data), <<>>)}
    ELSE LET obj == read_unaligned(data)
             rd == Copy(T.ssize, Len(data), T.ssize)
         IN  IF size_of(obj) = T.ssize
             THEN fam_fixed(data, obj, rd)
             ELSE IF size_of(obj) > Len(data)
                  THEN {Err(size_of(obj), Len(data), <<rd>>)}
                  ELSE fam_overlay(data, obj, rd)

\* mutation: the error pair of the header check is swapped
deserialize_ffi_fam_swap(data) ==
    IF Len(data) < T.ssize
    THEN {Err(Len(data), T.ssize, <<>>)}
    ELSE LET obj == read_unaligned(data)
             rd == Copy(T.ssize, Len(data), T.ssize)
         IN  IF size_of(obj) = T.ssize
             THEN fam_fixed(data, obj, rd)
             ELSE IF size_of(obj) # Len(data)
                  THEN {Err(size_of(obj), Len(data), <<rd>>)}
                  ELSE fam_overlay(data, obj, rd)

deserialize_ffi_fam(data) ==
    IF Len(data) < T.ssize
    THEN {Err(T.ssize, Len(data), <<>>)}
    ELSE LET obj == read_unaligned(data)
             rd == Copy(T.ssize, Len(data), T.ssize)
         IN  IF size_of(obj) = T.ssize
             THEN fam_fixed(data, obj, rd)
             ELSE IF size_of(obj) # Len(data)
                  THEN {Err(size_of(obj), Len(data), <<rd>>)}
                  ELSE fam_overlay(data, obj, rd)

\* ------------------------------------------------------------ state machine

\* The allocations that can back a &T: at least the struct itself, possibly
\* followed by room for a trailing array.
Instances == UNION {BytesOfLen(n) : n \in T.ssize..MaxLen}

Init ==
    /\ T \in Types
    /\ something = Default
    /\ serialized = <<>>
    /\ origin = "none"
    /\ ret = NoRet

\* Nothing built, received or called yet.  The codec keeps no state between
\* calls, so a run takes its input once.
Idle == origin = "none" /\ ret.op = "none" /\ something = Default

\* the owning subsystem builds an instance
Construct ==
    \E x \in Instances :
        /\ Idle
        /\ something' = x
        /\ serialized' = <<>>
        /\ origin' = "none"
        /\ ret' = NoRet
        /\ UNCHANGED T

\* a ByteBuf arrives from the transport
Receive ==
    \E b \in Buffers :
        /\ Idle
        /\ serialized' = b
        /\ origin' = "received"
        /\ something' = Default
        /\ ret' = NoRet
        /\ UNCHANGED T

SerializeFfi ==
    \E r \in serialize_ffi(something) :
        /\ ret' = [op |-> "serialize_ffi"] @@ r
        /\ serialized' = IF r.tag = "Ok" THEN r.val[1] ELSE <<>>
        /\ origin' = IF r.tag = "Ok" THEN "serialized" ELSE "none"
        /\ UNCHANGED <<T, something>>

DeserializeFfi ==
    /\ origin # "none"
    /\ \E r \in deserialize_ffi(serialized) :
           ret' = [op |-> "deserialize_ffi"] @@ r
    /\ UNCHANGED <<T, something, serialized, origin>>

DeserializeFfiFam ==
    /\ origin # "none"
    /\ \E r \in deserialize_ffi_fam(serialized) :
           ret' = [op |-> "deserialize_ffi_fam"] @@ r
    /\ UNCHANGED <<T, something, serialized, origin>>

Next ==
    \/ Construct
    \/ Receive
    \/ SerializeFfi
    \/ DeserializeFfi
    \/ DeserializeFfiFam

Spec == Init /\ [][Next]_vars

\* ------------------------------------------------------------- properties

RECURSIVE Image(_)
\* the contiguous byte image of a list of slots
Image(val) == IF val = <<>> THEN <<>> ELSE Head(val) \o Image(Tail(val))

\* the count field of a header or buffer
Count(b) == b[1]

\* static size + count * element size, in usize arithmetic
Oracle(b) == (T.ssize + Count(b) * T.esize) % UsizeMod

\* the layout invariant of a FAM instance: the allocation holds the struct
\* and the trailing array its count field declares
Valid(x) == Len(x) >= T.ssize + Count(x) * T.esize

CeilDiv(a, b) == CHOOSE k \in 0..a : k * b >= a /\ (k - 1) * b < a

Fixed(x) == SubSeq(x, 1, T.ssize)

RoundTripFam == T.fam /\ Valid(something) /\ origin = "serialized"
                  /\ ret.op = "deserialize_ffi_fam"

FamCall == ret.op = "deserialize_ffi_fam"

\* C1: for a type without flexible array member, deserialize_ffi applied to
\* serialize_ffi(x) succeeds and returns exactly the bytes of x.
C1_RoundTripFixed ==
    (~T.fam /\ origin = "serialized" /\ ret.op = "deserialize_ffi")
        => (ret.tag = "Ok" /\ ret.val = <<Fixed(something)>>)

C1_Witness ==
    /\ ~T.fam /\ origin = "serialized" /\ ret.op = "deserialize_ffi"
    /\ ret.tag = "Ok" /\ T.ssize >= 2
    /\ ret.val[1][1] # ret.val[1][2]

\* C2 as stated: for a valid FAM instance x, deserialize_ffi_fam applied to
\* serialize_ffi(x) succeeds, its first element is the header of x and the
\* byte image of all returned slots equals serialize_ffi(x).
C2_ImageEqualsBuffer ==
    RoundTripFam
        => /\ ret.tag = "Ok"
           /\ ret.val[1] = Fixed(something)
           /\ Image(ret.val) = serialized

\* C2 amended: for a valid FAM instance x, deserialize_ffi_fam applied to
\* serialize_ffi(x) succeeds, its first element is the header of x, the byte
\* image of the returned slots begins with serialize_ffi(x) (the struct and
\* its declared trailing array) and every byte after that is zero.
C2_RoundTripFam ==
    RoundTripFam
        => /\ ret.tag = "Ok"
           /\ ret.val[1] = Fixed(something)
           /\ serialized = SubSeq(something, 1, T.ssize + Count(something) * T.esize)
           /\ Len(Image(ret.val)) >= Len(serialized)
           /\ SubSeq(Image(ret.val), 1, Len(serialized)) = serialized
           /\ \A i \in (Len(serialized) + 1)..Len(Image(ret.val)) :
                  Image(ret.val)[i] = 0

C2_Witness ==
    /\ RoundTripFam /\ ret.tag = "Ok"
    /\ Count(something) >= 1 /\ T.esize >= 1
    /\ Len(Image(ret.val)) > Len(serialized)
    /\ serialized[Len(serialized)] # 0

\* C3: serialize_ffi never fails; its buffer has length size_of(instance) and
\* holds the size_of(instance) bytes of the instance, starting at its address.
C3_SerializeExact ==
    ret.op = "serialize_ffi"
        => /\ ret.tag = "Ok"
           /\ Len(serialized) = size_of(something)
           /\ \A i \in 1..Len(serialized) :
                  i <= Len(something) /\ serialized[i] = something[i]

\* C4: deserialize_ffi succeeds exactly when the buffer length is the static
\* size; otherwise it returns (static size, buffer length) and no value.
C4_ExactLength ==
    ret.op = "deserialize_ffi"
        => /\ (ret.tag = "Ok") <=> (Len(serialized) = T.ssize)
           /\ Len(serialized) # T.ssize
                => /\ ret.tag = "Err"
                   /\ ret.err = <<T.ssize, Len(serialized)>>
                   /\ ret.val = <<>>
                   /\ ret.copies = <<>>

C4_Witness ==
    /\ ret.op = "deserialize_ffi" /\ ret.tag = "Err"
    /\ Len(serialized) = T.ssize + 1

\* C5: a buffer at least as long as the static size whose header declares
\* trailing elements and whose length differs from the declared size is
\* rejected by deserialize_ffi_fam with (declared size, buffer length).
C5_DeclaredMismatch ==
    (FamCall /\ T.fam /\ Len(serialized) >= T.ssize
       /\ Oracle(serialized) # T.ssize /\ Len(serialized) # Oracle(serialized))
        => /\ ret.tag = "Err"
           /\ ret.err = <<Oracle(serialized), Len(serialized)>>
           /\ ret.val = <<>>

C5_Witness ==
    /\ FamCall /\ T.fam /\ Len(serialized) >= T.ssize
    /\ Count(serialized) = 2
    /\ Oracle(serialized) = T.ssize + 2 * T.esize
    /\ Len(serialized) = Oracle(serialized) - 1
    /\ ret.tag = "Err"

\* C6: on a buffer whose count field is 0, deserialize_ffi_fam succeeds
\* exactly when the length is the static size, then returns the one element
\* deserialize_ffi returns on the same bytes; a longer buffer is rejected
\* with (static size, buffer length).
C6_ZeroCountAsFixed ==
    (FamCall /\ T.fam /\ Len(serialized) >= 1 /\ Count(serialized) = 0)
        => /\ (ret.tag = "Ok") <=> (Len(serialized) = T.ssize)
           /\ ret.tag = "Ok"
                => /\ Len(ret.val) = 1
                   /\ \A r \in deserialize_ffi(serialized) :
                          r.tag = "Ok" /\ r.val = ret.val
           /\ Len(serialized) > T.ssize
                => ret.tag = "Err" /\ ret.err = <<T.ssize, Len(serialized)>>

C6_Witness ==
    /\ FamCall /\ T.fam /\ T.esize >= 1
    /\ Len(serialized) = T.ssize + 1 /\ Count(serialized) = 0
    /\ ret.tag = "Err"

\* C7: a buffer shorter than the static size is rejected by
\* deserialize_ffi_fam with (static size, buffer length) and nothing is read
\* from it.
C7_TooShort ==
    (FamCall /\ Len(serialized) < T.ssize)
        => /\ ret.tag = "Err"
           /\ ret.err = <<T.ssize, Len(serialized)>>
           /\ ret.copies = <<>>

C7_Witness ==
    /\ FamCall /\ T.fam /\ ret.tag = "Err"
    /\ Len(serialized) >= 1 /\ Len(serialized) = T.ssize - 1
    /\ Count(serialized) # 0

\* C8: no raw copy or read of any operation is longer than the allocated
\* extent of its source or of its destination.
C8_CopyBounds ==
    \A i \in 1..Len(ret.copies) :
        /\ ret.copies[i].len <= ret.copies[i].src
        /\ ret.copies[i].len <= ret.copies[i].dst

\* C9 as stated: the oracle equals the static size only when the count field
\* is zero, so a one-element success of deserialize_ffi_fam has count 0.
C9_OracleStaticOnlyZero ==
    (FamCall /\ T.fam /\ Len(serialized) >= T.ssize)
        => /\ size_of_fam(serialized) = T.ssize => Count(serialized) = 0
           /\ (ret.tag = "Ok" /\ Len(ret.val) = 1) => Count(ret.val[1]) = 0

\* C9 amended: when the element size is at least 1 and count * element size
\* does not wrap (is below 2^w), the oracle equals the static size only when
\* the count field is zero, so a one-element success has count 0.
C9_OracleNoWrap ==
    (FamCall /\ T.fam /\ Len(serialized) >= T.ssize
       /\ T.esize >= 1 /\ Count(serialized) * T.esize < UsizeMod)
        => /\ size_of_fam(serialized) = T.ssize => Count(serialized) = 0
           /\ (ret.tag = "Ok" /\ Len(ret.val) = 1) => Count(ret.val[1]) = 0

C9_Witness ==
    /\ FamCall /\ T.fam /\ T.esize >= 1
    /\ ret.tag = "Ok" /\ Len(ret.val) = 1
    /\ Count(serialized) * T.esize < UsizeMod
    /\ T.ssize >= 2 /\ ret.val[1][2] # 0

\* C10: a success of deserialize_ffi_fam on a buffer that declares trailing
\* elements returns ceil(length / static size) slots whose byte image starts
\* with the buffer and is zero after it.
C10_WholeSlots ==
    (FamCall /\ T.fam /\ ret.tag = "Ok" /\ Oracle(serialized) # T.ssize)
        => /\ Len(ret.val) = CeilDiv(Len(serialized), T.ssize)
           /\ \A k \in 1..Len(ret.val) : Len(ret.val[k]) = T.ssize
           /\ SubSeq(Image(ret.val), 1, Len(serialized)) = serialized
           /\ \A i \in (Len(serialized) + 1)..Len(Image(ret.val)) :
                  Image(ret.val)[i] = 0

C10_Witness ==
    /\ FamCall /\ T.fam /\ ret.tag = "Ok" /\ Oracle(serialized) # T.ssize
    /\ origin = "received"
    /\ Len(ret.val) = 2 /\ Len(serialized) = 3
    /\ serialized[3] # 0

====
